---- MODULE Spec2Model ----
(***************************************************************************)
(* Model of the research pipeline of src/main/app.py: the submit handler   *)
(* of main() and the coroutines it drives (plan_searches,                  *)
(* perform_searches, search, write_report, email_report, send_html_email). *)
(* Every capability call (Runner.run, SendGrid post) is an await point:    *)
(* the call is started by one action and returns or fails in another.      *)
(* Texts are tuples of tokens, so that strip(), "in" and startswith() are  *)
(* computed rather than assumed.                                           *)
(***************************************************************************)
EXTENDS Integers, Sequences, FiniteSets, TLC

\* ------------------------------------------------------------------ bounds
MaxPlanLen == 5
MaxToolCalls == 2
MaxRuns == 2

\* ------------------------------------------------------- program constants
NUM_SEARCHES == 5

None == "None"

\* ------------------------------------------------------------------ inputs
\* Form inputs: texts as tuples of characters.
Queries == { <<>>, <<" ">>, <<"q">> }

Emails == { <<>>, <<" ">>, <<"a">>, <<"a", "@", "b">>, <<"a", ".", "b">>,
            <<"a", "@", "b", ".", "c">> }

\* os.environ.get("SENDGRID_API_KEY"): unset, set to the empty string, set.
KeyValues == { None, "", "SG.key" }

\* ------------------------------------------------------- pure text helpers
RECURSIVE LStrip(_)
LStrip(s) == IF s # <<>> /\ Head(s) = " " THEN LStrip(Tail(s)) ELSE s

RECURSIVE RStrip(_)
RStrip(s) ==
    IF s # <<>> /\ s[Len(s)] = " " THEN RStrip(SubSeq(s, 1, Len(s) - 1)) ELSE s

\* str.strip()
Strip(s) == RStrip(LStrip(s))

\* c in s
Contains(s, c) == \E i \in 1..Len(s) : s[i] = c

\* Variant of ValidationError: the recipient is refused only when it has
\* neither "@" nor ".".
ValidationErrorEitherChar(q, e) ==
    IF Strip(q) = <<>> THEN "Please enter a research query."
    ELSE IF Strip(e) = <<>> THEN "Please enter your email address."
    ELSE IF ~Contains(e, "@") /\ ~Contains(e, ".")
         THEN "Please enter a valid email address."
    ELSE None

\* The three checks of the submit handler, in order; None when all pass.
ValidationError(q, e) ==
    IF Strip(q) = <<>> THEN "Please enter a research query."
    ELSE IF Strip(e) = <<>> THEN "Please enter your email address."
    ELSE IF ~Contains(e, "@") \/ ~Contains(e, ".")
         THEN "Please enter a valid email address."
    ELSE None

\* Variant of KeyMissing: only an unset variable counts as missing.
KeyMissingNoneOnly(k) == k = None

\* not os.environ.get("SENDGRID_API_KEY")
KeyMissing(k) == k = None \/ k = ""

\* ------------------------------------------------------------ planner data
\* WebSearchItem
Item(n) == [query |-> "term" \o ToString(n), reason |-> "why" \o ToString(n)]

\* WebSearchPlan.searches as the planner can return it: list[WebSearchItem]
\* carries no length constraint, so every length validates.  Two plans repeat
\* a directive.
Plans ==
    { [i \in 1..n |-> Item(i)] : n \in 0..MaxPlanLen }
        \cup { <<Item(1), Item(1)>>, <<Item(2), Item(1), Item(2)>> }

\* ------------------------------------------------------------- search data
FAILED_PREFIX == "Search failed"

\* Final outputs the search agent can produce for a directive: free text,
\* which may itself begin with the words of the failure placeholder.
SearchOutputs(item) ==
    { <<"Summary", item.query>>, <<FAILED_PREFIX, "by the agent", item.query>> }

\* The string search() returns when Runner.run raises.
SearchFailedText(item) ==
    <<FAILED_PREFIX, "for", item.query, "Unable to retrieve results">>

\* result.startswith("Search failed")
StartsWithFailed(text) == Len(text) >= 1 /\ text[1] = FAILED_PREFIX

\* search(item): the agent's output on success, the placeholder on failure.
SearchResult(item, outcome) ==
    IF outcome.ok THEN outcome.value ELSE SearchFailedText(item)

\* sum(1 for result in search_results if not result.startswith(...))
SuccessfulSearches(results) ==
    Cardinality({ i \in 1..Len(results) : ~StartsWithFailed(results[i]) })

\* ------------------------------------------------------------- writer data
\* ReportData
Reports ==
    { [short_summary |-> "s1", markdown_report |-> "m1",
       follow_up_questions |-> <<>>],
      [short_summary |-> "s2", markdown_report |-> "m2",
       follow_up_questions |-> <<"f1">>] }

\* ---------------------------------------------------------- failure kinds
\* A capability call that fails raises an Exception; RuntimeError is kept
\* apart because run_async_function catches it.
ErrKinds == { "Exception", "RuntimeError" }

REUSE_MSG == "cannot reuse already awaited coroutine"

\* run_async_function(coro) when coro raises: any other exception passes
\* through; a RuntimeError raised under loop.run_until_complete/asyncio.run
\* is caught and asyncio.run(coro) is called on the finished coroutine, which
\* raises RuntimeError(REUSE_MSG); when get_event_loop itself raised, the
\* coroutine ran in the handler and its RuntimeError passes through.
SurfacedMessages(kind) ==
    IF kind = "RuntimeError" THEN { "RuntimeError", REUSE_MSG } ELSE { kind }

\* ------------------------------------------------------------------- state
VARIABLES
    stage,            \* pipeline stage shown by the status placeholders
    pc,               \* position inside the submit handler
    runs,             \* submissions so far
    query, email,     \* the form's values of the current run
    sendgridKey,      \* os.environ["SENDGRID_API_KEY"]
    research_status,  \* 'research_status' in st.session_state
    search_plan,      \* main's search_plan
    idx,              \* perform_searches' loop index (items completed)
    results,          \* perform_searches' results / main's search_results
    successful,       \* main's successful_searches: <<>> unbound, <<n>> bound
    report,           \* main's report: <<>> unbound, <<r>> bound to r
    delivery,         \* what status_emailing ends as
    shown,            \* reports displayed and offered for download
    errors,           \* st.error / st.warning messages of the run
    calls,            \* capability calls of the run, in start order
    sends,            \* send_html_email calls of the run
    sleeps,           \* asyncio.sleep(1) calls of the run
    raised,           \* exception raised inside the coroutine main awaited
    entered           \* stages entered in the run, in order

vars == << stage, pc, runs, query, email, sendgridKey, research_status,
           search_plan, idx, results, successful, report, delivery, shown,
           errors, calls, sends, sleeps, raised, entered >>

Stages == { "Idle", "Planning", "Searching", "Writing", "Delivering",
            "Done", "Aborted" }

Call(role, input) == [role |-> role, input |-> input, outcome |-> "pending"]

\* The last call gets its outcome.
Returned(cs, outcome) == [cs EXCEPT ![Len(cs)].outcome = outcome]

InFlight == { i \in 1..Len(calls) : calls[i].outcome = "pending" }

CallsOf(role) == { i \in 1..Len(calls) : calls[i].role = role }

\* -------------------------------------------------------------------- Init
Init ==
    /\ stage = "Idle"
    /\ pc = "idle"
    /\ runs = 0
    /\ query = <<>>
    /\ email = <<>>
    /\ sendgridKey \in KeyValues
    /\ research_status = FALSE
    /\ search_plan = <<>>
    /\ idx = 0
    /\ results = <<>>
    /\ successful = <<>>
    /\ report = <<>>
    /\ delivery = None
    /\ shown = <<>>
    /\ errors = <<>>
    /\ calls = <<>>
    /\ sends = <<>>
    /\ sleeps = 0
    /\ raised = <<>>
    /\ entered = <<>>

\* ------------------------------------------------- control-flow decisions
\* Variant of PlanFailed: the return is missing, the handler falls through
\* to step 2.
PlanFailedFallThrough == [stage |-> "Searching", pc |-> "search_loop"]

\* except at lines 404-406: st.error and return.
PlanFailed == [stage |-> "Aborted", pc |-> "end"]

\* Variant of AfterSearching: a batch without any success ends the run.
AfterSearchingShortCircuit(res) ==
    IF SuccessfulSearches(res) = 0
    THEN [stage |-> "Aborted", pc |-> "end"]
    ELSE [stage |-> "Writing", pc |-> "write_wait"]

\* Lines 412-431: whatever the results are, the handler goes on to step 3.
AfterSearching(res) == [stage |-> "Writing", pc |-> "write_wait"]

\* Variant of WriteFailed: the return is missing, the handler falls through
\* to step 4.
WriteFailedFallThrough == [stage |-> "Delivering", pc |-> "deliver_check"]

\* except at lines 433-435: st.error and return.
WriteFailed == [stage |-> "Aborted", pc |-> "end"]

\* Variant of EmailFailed: the email exception ends the run as the planner's
\* and the writer's do.
EmailFailedAbort == [stage |-> "Aborted", pc |-> "end", delivery |-> "Failed"]

\* Variant of EmailFailed: the handler returns after the warning, before the
\* results are displayed.
EmailFailedReturn ==
    [stage |-> "Delivering", pc |-> "end", delivery |-> "Failed"]

\* except at lines 457-461: st.warning, then the results are displayed.
EmailFailed == [stage |-> "Delivering", pc |-> "display", delivery |-> "Failed"]

\* Variant of AppendResult: the result is put in front.
AppendResultFront(res, item, outcome) ==
    << SearchResult(item, outcome) >> \o res

\* perform_searches, line 183 (search() returned): results.append(result).
AppendResult(res, item, outcome) == Append(res, SearchResult(item, outcome))

\* Variant of NextIdx: a failed search ends the loop.
NextIdxStopOnFailure(i, plan, outcome) ==
    IF outcome.ok THEN i + 1 ELSE Len(plan)

\* Variant of NextIdx: a failed search is tried again while the number of
\* calls is within the length of the plan.
NextIdxRetry(i, plan, outcome) ==
    IF outcome.ok \/ Len(calls) > Len(plan) THEN i + 1 ELSE i

\* for i, item in enumerate(search_plan.searches): the next item, whatever
\* the outcome of this one was.
NextIdx(i, plan, outcome) == i + 1

\* Variant of StartSearch: the searches of all remaining items are started
\* together.
StartSearchFanOut(cs, plan, i) ==
    cs \o [k \in 1..(Len(plan) - i) |-> Call("search", plan[i + k])]

\* perform_searches, lines 179-182: one iteration awaits search(item) for its
\* own item.
StartSearch(cs, plan, i) == Append(cs, Call("search", plan[i + 1]))

\* Variant of WriterInput: the failure placeholders are left out.
WriterInputSuccessesOnly(q, res) ==
    [query |-> q,
     search_results |-> SelectSeq(res, LAMBDA t : ~StartsWithFailed(t))]

\* write_report(query, search_results), lines 211 and 431: the writer's input
\* is built from the query and the whole list.
WriterInput(q, res) == [query |-> q, search_results |-> res]

\* Variant of ShownReport: a failed delivery hides the report.
ShownReportUnlessFailed(rep, deliv) == IF deliv = "Failed" THEN <<>> ELSE rep

\* Lines 463-477: the report is displayed whatever the email step did.
ShownReport(rep, deliv) == rep

\* ----------------------------------------------------------------- actions
\* A script run has ended: nothing is awaited.
ScriptIdle == pc \in { "idle", "end" }

\* A new script run starts with an empty page and fresh locals.
FreshRun ==
    /\ search_plan' = <<>>
    /\ idx' = 0
    /\ results' = <<>>
    /\ successful' = <<>>
    /\ report' = <<>>
    /\ delivery' = None
    /\ shown' = <<>>
    /\ sends' = <<>>
    /\ sleeps' = 0
    /\ raised' = <<>>

\* Form submitted, validation fails: st.error and return.
SubmitRejected(q, e) ==
    /\ ScriptIdle
    /\ runs < MaxRuns
    /\ ValidationError(q, e) # None
    /\ runs' = runs + 1
    /\ query' = q
    /\ email' = e
    /\ stage' = "Idle"
    /\ pc' = "end"
    /\ errors' = << << ValidationError(q, e) >> >>
    /\ calls' = <<>>
    /\ entered' = <<>>
    /\ FreshRun
    /\ UNCHANGED << sendgridKey, research_status >>

\* Form submitted, validation passes: session state initialised, Planning
\* shown, plan_searches(query) started.
SubmitAccepted(q, e) ==
    /\ ScriptIdle
    /\ runs < MaxRuns
    /\ ValidationError(q, e) = None
    /\ runs' = runs + 1
    /\ query' = q
    /\ email' = e
    /\ research_status' = TRUE
    /\ stage' = "Planning"
    /\ entered' = << "Planning" >>
    /\ pc' = "plan_wait"
    /\ calls' = << Call("planner", q) >>
    /\ errors' = <<>>
    /\ FreshRun
    /\ UNCHANGED << sendgridKey >>

\* plan_searches raises (capability error, or output that does not validate
\* as WebSearchPlan): "Planning failed" is shown and the handler returns.
PlannerFail(kind, msg) ==
    /\ pc = "plan_wait"
    /\ msg \in SurfacedMessages(kind)
    /\ calls' = Returned(calls, "failed")
    /\ errors' = Append(errors, << "Planning failed", msg >>)
    /\ stage' = PlanFailed.stage
    /\ entered' = Append(entered, PlanFailed.stage)
    /\ pc' = PlanFailed.pc
    /\ raised' = << kind >>
    /\ UNCHANGED << runs, query, email, sendgridKey, research_status,
                    search_plan, idx, results, successful, report, delivery,
                    shown, sends, sleeps >>

\* plan_searches returns a plan: Searching shown, perform_searches started.
PlannerOk(plan) ==
    /\ pc = "plan_wait"
    /\ calls' = Returned(calls, "ok")
    /\ search_plan' = plan
    /\ stage' = "Searching"
    /\ entered' = Append(entered, "Searching")
    /\ results' = <<>>
    /\ idx' = 0
    /\ pc' = "search_loop"
    /\ UNCHANGED raised
    /\ UNCHANGED << runs, query, email, sendgridKey, research_status,
                    successful, report, delivery, shown, errors, sends,
                    sleeps >>

\* The loop of perform_searches takes the next item: search(item) awaits
\* Runner.run(search_agent, ...).
SearchStart ==
    /\ pc = "search_loop"
    /\ idx < Len(search_plan)
    /\ calls' = StartSearch(calls, search_plan, idx)
    /\ pc' = "search_wait"
    /\ UNCHANGED raised
    /\ UNCHANGED << stage, runs, query, email, sendgridKey, research_status,
                    search_plan, idx, results, successful, report, delivery,
                    shown, errors, sends, sleeps, entered >>

\* What Runner.run(search_agent, ...) can do for an item.
SearchOutcomes(item) ==
    { [ok |-> TRUE, value |-> v] : v \in SearchOutputs(item) }
        \cup { [ok |-> FALSE, value |-> <<>>] }

\* The search call returns or raises; search() returns a string either way,
\* perform_searches appends it and goes to sleep.  As search() catches every
\* Exception, the handlers at lines 186-189, 193-195 and 421-424 have nothing
\* to catch and no action stands for them.
SearchReturn(outcome) ==
    /\ pc = "search_wait"
    /\ outcome \in SearchOutcomes(search_plan[idx + 1])
    /\ calls' = Returned(calls, IF outcome.ok THEN "ok" ELSE "failed")
    /\ results' = AppendResult(results, search_plan[idx + 1], outcome)
    /\ idx' = NextIdx(idx, search_plan, outcome)
    /\ pc' = "sleep"
    /\ UNCHANGED raised
    /\ UNCHANGED << stage, runs, query, email, sendgridKey, research_status,
                    search_plan, successful, report, delivery, shown, errors,
                    sends, sleeps, entered >>

\* await asyncio.sleep(1), line 185.
Sleep ==
    /\ pc = "sleep"
    /\ sleeps' = sleeps + 1
    /\ pc' = "search_loop"
    /\ UNCHANGED raised
    /\ UNCHANGED << stage, runs, query, email, sendgridKey, research_status,
                    search_plan, idx, results, successful, report, delivery,
                    shown, errors, calls, sends, entered >>

\* perform_searches returns: the success count is shown, Writing is shown
\* and write_report(query, search_results) is started.
SearchesDone ==
    /\ pc = "search_loop"
    /\ idx >= Len(search_plan)
    /\ successful' = << SuccessfulSearches(results) >>
    /\ stage' = AfterSearching(results).stage
    /\ entered' = Append(entered, AfterSearching(results).stage)
    /\ pc' = AfterSearching(results).pc
    /\ calls' = IF AfterSearching(results).pc = "write_wait"
                THEN Append(calls, Call("writer", WriterInput(query, results)))
                ELSE calls
    /\ UNCHANGED raised
    /\ UNCHANGED << runs, query, email, sendgridKey, research_status,
                    search_plan, idx, results, report, delivery, shown,
                    errors, sends, sleeps >>

\* write_report raises: "Report generation failed" and return.
WriterFail(kind, msg) ==
    /\ pc = "write_wait"
    /\ msg \in SurfacedMessages(kind)
    /\ calls' = Returned(calls, "failed")
    /\ errors' = Append(errors, << "Report generation failed", msg >>)
    /\ stage' = WriteFailed.stage
    /\ entered' = Append(entered, WriteFailed.stage)
    /\ pc' = WriteFailed.pc
    /\ raised' = << kind >>
    /\ UNCHANGED << runs, query, email, sendgridKey, research_status,
                    search_plan, idx, results, successful, report, delivery,
                    shown, sends, sleeps >>

\* write_report returns a ReportData: Delivering ("Sending email...") shown.
WriterOk(r) ==
    /\ pc = "write_wait"
    /\ calls' = Returned(calls, "ok")
    /\ report' = << r >>
    /\ stage' = "Delivering"
    /\ entered' = Append(entered, "Delivering")
    /\ pc' = "deliver_check"
    /\ UNCHANGED raised
    /\ UNCHANGED << runs, query, email, sendgridKey, research_status,
                    search_plan, idx, results, successful, delivery, shown,
                    errors, sends, sleeps >>

\* Line 443, key missing: the email step is skipped, nothing is called.
DeliverSkip ==
    /\ pc = "deliver_check"
    /\ KeyMissing(sendgridKey)
    /\ errors' = Append(errors, << "SendGrid API key not found" >>)
    /\ delivery' = "Skipped"
    /\ pc' = "display"
    /\ UNCHANGED raised
    /\ UNCHANGED << stage, runs, query, email, sendgridKey, research_status,
                    search_plan, idx, results, successful, report, shown,
                    calls, sends, sleeps, entered >>

\* Line 448, key present: email_report builds the custom agent for the
\* recipient and awaits Runner.run(custom_agent, ...).
DeliverStart ==
    /\ pc = "deliver_check"
    /\ ~KeyMissing(sendgridKey)
    /\ calls' = Append(calls, Call("email", [report |-> report, to |-> email]))
    /\ pc' = "email_wait"
    /\ UNCHANGED raised
    /\ UNCHANGED << stage, runs, query, email, sendgridKey, research_status,
                    search_plan, idx, results, successful, report, delivery,
                    shown, errors, sends, sleeps, entered >>

\* send_html_email: the dict handed back to the agent.  An exception of the
\* SendGrid post is caught and becomes {"status": "error"}.
SendStatus(posted) == IF posted THEN "success" ELSE "error"

\* While the agent runs it may call its tool send_to_specific_email, which
\* calls send_html_email(email_address, ...); the number of tool calls is the
\* agent's choice.
AgentToolCall(posted) ==
    /\ pc = "email_wait"
    /\ Len(sends) < MaxToolCalls
    /\ sends' = Append(sends, [to |-> email, status |-> SendStatus(posted)])
    /\ UNCHANGED raised
    /\ UNCHANGED << stage, pc, runs, query, email, sendgridKey,
                    research_status, search_plan, idx, results, successful,
                    report, delivery, shown, errors, calls, sleeps, entered >>

\* Runner.run(custom_agent, ...) returns: email_report returns the report and
\* main shows "Email sent successfully".
EmailOk ==
    /\ pc = "email_wait"
    /\ calls' = Returned(calls, "ok")
    /\ delivery' = "Sent"
    /\ pc' = "display"
    /\ UNCHANGED raised
    /\ UNCHANGED << stage, runs, query, email, sendgridKey, research_status,
                    search_plan, idx, results, successful, report, shown,
                    errors, sends, sleeps, entered >>

\* Runner.run(custom_agent, ...) raises: email_report re-raises, main warns
\* "Email sending failed" and goes on.
EmailFail(kind, msg) ==
    /\ pc = "email_wait"
    /\ msg \in SurfacedMessages(kind)
    /\ calls' = Returned(calls, "failed")
    /\ errors' = Append(errors, << "Email sending failed", msg >>)
    /\ delivery' = EmailFailed.delivery
    /\ stage' = EmailFailed.stage
    /\ entered' = IF EmailFailed.stage = stage THEN entered
                  ELSE Append(entered, EmailFailed.stage)
    /\ pc' = EmailFailed.pc
    /\ raised' = << kind >>
    /\ UNCHANGED << runs, query, email, sendgridKey, research_status,
                    search_plan, idx, results, successful, report, shown,
                    sends, sleeps >>

\* Lines 463-477: summary, full report and download button.
Display ==
    /\ pc = "display"
    /\ shown' = ShownReport(report, delivery)
    /\ stage' = "Done"
    /\ entered' = Append(entered, "Done")
    /\ pc' = "end"
    /\ UNCHANGED raised
    /\ UNCHANGED << runs, query, email, sendgridKey, research_status,
                    search_plan, idx, results, successful, report, delivery,
                    errors, calls, sends, sleeps >>

\* ------------------------------------------------------------ specification
\* Steps of a run in progress: a capability call returns or fails, a sleep
\* ends, the handler goes on.
Progress ==
    \/ \E k \in ErrKinds : \E m \in SurfacedMessages(k) : PlannerFail(k, m)
    \/ \E p \in Plans : PlannerOk(p)
    \/ SearchStart
    \/ /\ pc = "search_wait"
       /\ \E o \in SearchOutcomes(search_plan[idx + 1]) : SearchReturn(o)
    \/ Sleep
    \/ SearchesDone
    \/ \E k \in ErrKinds : \E m \in SurfacedMessages(k) : WriterFail(k, m)
    \/ \E r \in Reports : WriterOk(r)
    \/ DeliverSkip
    \/ DeliverStart
    \/ \E posted \in BOOLEAN : AgentToolCall(posted)
    \/ EmailOk
    \/ \E k \in ErrKinds : \E m \in SurfacedMessages(k) : EmailFail(k, m)
    \/ Display

Next ==
    \/ \E q \in Queries, e \in Emails : SubmitRejected(q, e)
    \/ \E q \in Queries, e \in Emails : SubmitAccepted(q, e)
    \/ Progress

Spec == Init /\ [][Next]_vars

\* Every capability call eventually returns or fails, and the handler runs on.
FairSpec == Spec /\ WF_vars(Progress)

\* ------------------------------------------------------------------ claims
Range(seq) == { seq[i] : i \in 1..Len(seq) }

StageOrder == << "Planning", "Searching", "Writing", "Delivering", "Done" >>

\* The stage a capability role is called in.
StageOfRole(role) ==
    CASE role = "planner" -> "Planning"
      [] role = "search" -> "Searching"
      [] role = "writer" -> "Writing"
      [] role = "email" -> "Delivering"

\* The outcome of the one call of a role ("none" when it was not called).
OutcomeOf(role) ==
    IF CallsOf(role) = {} THEN "none"
    ELSE calls[CHOOSE i \in CallsOf(role) : TRUE].outcome

\* The search calls of the run, in start order.
SearchCalls == SelectSeq(calls, LAMBDA c : c.role = "search")

SearchingOver == "Writing" \in Range(entered)

\* C1: the stages entered in a run are a prefix of Planning, Searching,
\* Writing, Delivering, Done (so none twice, none skipped), possibly ended by
\* Aborted right after Planning or right after Writing; a stage is entered
\* only when the stage before it has its outcome: only the last call can be
\* pending, it belongs to the current stage, Searching needs the planner's
\* plan, Delivering the writer's report, Done a delivery result.
C1_StagesInOrder ==
    /\ \E n \in 0..Len(StageOrder) :
          \/ entered = SubSeq(StageOrder, 1, n)
          \/ /\ n \in { 1, 3 }
             /\ entered = Append(SubSeq(StageOrder, 1, n), "Aborted")
    /\ entered # <<>> => stage = entered[Len(entered)]
    /\ \A i \in InFlight : i = Len(calls) /\ StageOfRole(calls[i].role) = stage
    /\ "Searching" \in Range(entered) => OutcomeOf("planner") = "ok"
    /\ "Writing" \in Range(entered) =>
          /\ Len(SearchCalls) = Len(search_plan)
          /\ \A i \in 1..Len(SearchCalls) : SearchCalls[i].outcome # "pending"
    /\ "Delivering" \in Range(entered) => OutcomeOf("writer") = "ok"
    /\ "Done" \in Range(entered) => delivery # None

\* C1 witness: a run that went through all five stages.
C1_Witness == entered = StageOrder /\ stage = "Done" /\ Len(search_plan) >= 2

\* C2: when the planner call has failed the run is Aborted with the planning
\* error shown, the planner call is the only call made, no later stage was
\* entered and there is no report.
C2_PlannerFailureAborts ==
    OutcomeOf("planner") = "failed" =>
        /\ stage = "Aborted"
        /\ entered = << "Planning", "Aborted" >>
        /\ Len(errors) = 1 /\ errors[1][1] = "Planning failed"
        /\ Len(calls) = 1
        /\ report = <<>> /\ shown = <<>> /\ sends = <<>>

\* C2 witness: an aborted run whose planner call failed.
C2_Witness ==
    stage = "Aborted" /\ Len(calls) = 1 /\ calls[1].role = "planner"
        /\ calls[1].outcome = "failed"

\* C3: when the writer call has failed the run is Aborted whatever the search
\* results are, Delivering was not entered, the email agent was not called,
\* nothing was sent, and no report is bound or displayed.
C3_WriterFailureAborts ==
    OutcomeOf("writer") = "failed" =>
        /\ stage = "Aborted"
        /\ "Delivering" \notin Range(entered)
        /\ "Done" \notin Range(entered)
        /\ CallsOf("email") = {}
        /\ sends = <<>>
        /\ delivery = None
        /\ report = <<>> /\ shown = <<>>
        /\ errors[Len(errors)][1] = "Report generation failed"

\* C3 witness: the writer failed after a batch in which some searches
\* succeeded and some failed.
C3_Witness ==
    /\ OutcomeOf("writer") = "failed"
    /\ \E i, j \in 1..Len(SearchCalls) :
          SearchCalls[i].outcome = "ok" /\ SearchCalls[j].outcome = "failed"

\* C3 witness of the extremes: the writer failed after no search succeeded.
C3_WitnessNoneSucceeded ==
    /\ OutcomeOf("writer") = "failed"
    /\ Len(SearchCalls) >= 2
    /\ \A i \in 1..Len(SearchCalls) : SearchCalls[i].outcome = "failed"

\* The outcome of directive item, given how its search call ended: one of the
\* agent's outputs for that item, or the failure placeholder naming it.
IsOutcomeOf(text, item, callOutcome) ==
    IF callOutcome = "ok" THEN text \in SearchOutputs(item)
    ELSE text = SearchFailedText(item)

\* C4: what perform_searches returns has exactly one entry per directive of
\* the plan, and the i-th entry is the outcome of the search call made for
\* the i-th directive, for every plan length from 0 and every combination of
\* successes and failures.
C4_OneOutcomePerDirective ==
    SearchingOver =>
        /\ Len(results) = Len(search_plan)
        /\ Len(SearchCalls) = Len(search_plan)
        /\ \A i \in 1..Len(search_plan) :
              /\ SearchCalls[i].input = search_plan[i]
              /\ IsOutcomeOf(results[i], search_plan[i], SearchCalls[i].outcome)

\* C4 witness: a plan of at least three directives with a failure between two
\* successes.
C4_Witness ==
    /\ SearchingOver
    /\ Len(search_plan) >= 3
    /\ SearchCalls[1].outcome = "ok"
    /\ SearchCalls[2].outcome = "failed"
    /\ SearchCalls[3].outcome = "ok"

\* C4 witness of the extremes: every directive of a full plan failed.
C4_WitnessAllFailed ==
    /\ SearchingOver
    /\ Len(search_plan) = NUM_SEARCHES
    /\ \A i \in 1..Len(SearchCalls) : SearchCalls[i].outcome = "failed"

\* C5: a failed search call does not end the batch: while Searching, after a
\* failure the loop is still running; the failed directive's entry is the
\* "Search failed" placeholder for its query, no error is shown for it, and
\* in the end every directive of the plan was attempted.
C5_SearchFailureIsolated ==
    /\ \A i \in 1..Len(SearchCalls) :
          SearchCalls[i].outcome = "failed" =>
              /\ stage # "Searching" \/ pc \in { "search_loop", "sleep", "search_wait" }
              /\ i <= Len(results)
              /\ StartsWithFailed(results[i])
              /\ Contains(results[i], search_plan[i].query)
              /\ errors = <<>> \/ stage # "Searching"
    /\ stage = "Searching" /\ pc = "search_loop" =>
          Len(SearchCalls) = idx
    /\ SearchingOver => Len(SearchCalls) = Len(search_plan)

\* C5 witness: the first directive failed and a later one was still
\* attempted and succeeded.
C5_Witness ==
    /\ SearchingOver
    /\ Len(SearchCalls) >= 2
    /\ SearchCalls[1].outcome = "failed"
    /\ SearchCalls[Len(SearchCalls)].outcome = "ok"

\* C6: the executor never fails the stage: from Searching the run goes only
\* to Writing, and only when every directive of the plan has its result; and
\* once Searching is entered, Writing is entered, whatever the results are.
C6_SearchingLeadsToWriting ==
    /\ [][stage = "Searching" =>
            \/ stage' = "Searching"
            \/ stage' = "Writing" /\ Len(results) = Len(search_plan)]_vars
    /\ (stage = "Searching") ~> (stage = "Writing")

\* C6 witness: Writing entered after a batch of at least two directives that
\* all failed.
C6_Witness ==
    /\ stage = "Writing"
    /\ Len(search_plan) >= 2
    /\ successful = << 0 >>
    /\ \A i \in 1..Len(SearchCalls) : SearchCalls[i].outcome = "failed"

\* C7: once the writer has produced a report the run is never Aborted and
\* reaches Done, whether the email step was skipped, returned or raised.
C7_ReportLeadsToDone ==
    /\ [](report # <<>> => stage \in { "Delivering", "Done" })
    /\ (report # <<>>) ~> (stage = "Done")

\* C7 witness: Done after the email agent call raised.
C7_Witness ==
    stage = "Done" /\ OutcomeOf("email") = "failed" /\ delivery = "Failed"

\* C7 witness: Done after the email step was skipped.
C7_WitnessSkipped == stage = "Done" /\ delivery = "Skipped"

\* C7 witness: Done after the email agent returned.
C7_WitnessSent == stage = "Done" /\ delivery = "Sent"

\* C8: when the run is Done and every send of the external delivery
\* capability failed, the delivery result is Failed, not Sent.
C8_SendFailureIsFailed ==
    ( /\ stage = "Done"
      /\ sends # <<>>
      /\ \A i \in 1..Len(sends) : sends[i].status = "error" )
        => delivery = "Failed"

\* No delivery credential: the variable is unset or empty.
NoCredential == sendgridKey \in { None, "" }

\* C9: without a delivery credential, once Delivering is entered neither the
\* email agent nor send_html_email is called, and the delivery result, once
\* set, is Skipped.
C9_NoCredentialSkips ==
    NoCredential /\ "Delivering" \in Range(entered) =>
        /\ CallsOf("email") = {}
        /\ sends = <<>>
        /\ pc # "deliver_check" => delivery = "Skipped"
        /\ stage = "Done" => shown = report /\ report # <<>>

\* C9 witness: a run that is Done with the variable set to the empty string.
C9_Witness == sendgridKey = "" /\ stage = "Done" /\ delivery = "Skipped"

\* C10: in a run send_html_email is called at most once.
C10_AtMostOneSend == Len(sends) <= 1

\* C11: in a terminal state, Done carries the report of a successful writer
\* call, displayed; Aborted carries no report, and exactly one error: the
\* failure of the stage that failed, with the message of the exception the
\* capability call raised.
C11_TerminalContract ==
    /\ stage = "Done" =>
          /\ report # <<>> /\ shown = report
          /\ OutcomeOf("writer") = "ok"
    /\ stage = "Aborted" =>
          /\ report = <<>> /\ shown = <<>>
          /\ Len(errors) = 1 /\ Len(raised) = 1
          /\ errors[1][1] = IF OutcomeOf("writer") = "failed"
                            THEN "Report generation failed"
                            ELSE "Planning failed"
          /\ errors[1][2] = raised[1]

\* C12: from the moment the writer's report is bound, the email step leaves
\* it as it is, whether the step is skipped, returns or raises, and at Done
\* the report displayed is that report.
C12_DeliveryKeepsReport ==
    [][report # <<>> /\ runs' = runs =>
          /\ report' = report
          /\ stage' = "Done" => shown' = report /\ shown' # <<>>]_vars

\* C12 witness: Done with the report displayed after the email call raised.
C12_Witness ==
    /\ stage = "Done" /\ delivery = "Failed"
    /\ sends # <<>>
    /\ shown = report /\ report # <<>>

\* C12 witness: the same after the email step was skipped.
C12_WitnessSkipped ==
    stage = "Done" /\ delivery = "Skipped" /\ shown = report /\ report # <<>>

\* What the submit handler requires of a submission, as the form's texts:
\* both non-empty, and the recipient has an "@" and a ".".
HasChar(text, c) == c \in Range(text)

WellFormed(q, e) ==
    q # <<>> /\ e # <<>> /\ HasChar(e, "@") /\ HasChar(e, ".")

\* C13: a run is in a pipeline stage only for a submission whose query and
\* recipient are non-empty and whose recipient has "@" and "."; any other
\* submission leaves the run at Idle with a validation message and without
\* any capability call, send or stage entered.
C13_ValidatedBeforePlanning ==
    /\ entered # <<>> \/ calls # <<>> => WellFormed(query, email)
    /\ runs > 0 /\ ~WellFormed(query, email) =>
          /\ stage = "Idle" /\ pc = "end"
          /\ entered = <<>> /\ calls = <<>> /\ sends = <<>>
          /\ Len(errors) = 1
          /\ report = <<>> /\ shown = <<>>

\* C13 witness: a recipient with "@" but without "." was rejected.
C13_Witness ==
    /\ runs > 0 /\ pc = "end" /\ stage = "Idle"
    /\ query = << "q" >> /\ email = << "a", "@", "b" >>
    /\ calls = <<>>

\* C13 witness: a well-formed submission entered Planning.
C13_WitnessAccepted == stage = "Planning" /\ WellFormed(query, email)

\* The writer call of the run.
WriterCall == calls[CHOOSE i \in CallsOf("writer") : TRUE]

\* C14: the writer is called with the query of the run and the list that
\* perform_searches returned: one entry per directive of the plan in plan
\* order, the placeholder for every failed search included.
C14_WriterGetsAllOutcomes ==
    CallsOf("writer") # {} =>
        /\ WriterCall.input.query = query
        /\ WriterCall.input.search_results = results
        /\ Len(WriterCall.input.search_results) = Len(search_plan)
        /\ \A i \in 1..Len(search_plan) :
              IsOutcomeOf(WriterCall.input.search_results[i], search_plan[i],
                          SearchCalls[i].outcome)

\* C14 witness: the writer was called after two of five searches failed.
C14_Witness ==
    /\ CallsOf("writer") # {}
    /\ Len(search_plan) = NUM_SEARCHES
    /\ Cardinality({ i \in 1..Len(SearchCalls) :
                        SearchCalls[i].outcome = "failed" }) = 2

\* C15: a run that has begun Planning reaches Done or Aborted, and a run that
\* has entered a stage ends in no other state.
C15_RunTerminates ==
    /\ [](pc = "end" /\ entered # <<>> => stage \in { "Done", "Aborted" })
    /\ (stage = "Planning") ~> (pc = "end" /\ stage \in { "Done", "Aborted" })

\* C15 witness: a run ended Done after the email agent used its tool.
C15_Witness == pc = "end" /\ stage = "Done" /\ sends # <<>>

\* C15 witness: a run ended Aborted.
C15_WitnessAborted == pc = "end" /\ stage = "Aborted"

\* C17: when perform_searches has returned for a plan of N >= 1 directives,
\* N - 1 pacing delays have occurred.
C17_DelayOnlyBetween ==
    SearchingOver /\ Len(search_plan) >= 1 => sleeps = Len(search_plan) - 1

C19_NoRetry ==
    /\ Cardinality(CallsOf("planner")) <= 1
    /\ Cardinality(CallsOf("writer")) <= 1
    /\ Len(SearchCalls) <= Len(search_plan)
    /\ stage = "Searching" => Len(SearchCalls) \in { idx, idx + 1 }
    /\ pc = "end" /\ entered # <<>> =>
          Len(calls) <= 1 + Len(search_plan) + 1 + 1

\* C19 witness: a finished run in which a search call and the writer call
\* failed and neither was repeated.
C19_Witness ==
    /\ pc = "end" /\ stage = "Aborted"
    /\ OutcomeOf("writer") = "failed"
    /\ \E i \in 1..Len(SearchCalls) : SearchCalls[i].outcome = "failed"

\* C19 witness: the planner call failed with a RuntimeError and was not
\* repeated.
C19_WitnessPlanner ==
    pc = "end" /\ raised = << "RuntimeError" >> /\ Len(calls) = 1

\* C20: the plan Searching is entered with has exactly NUM_SEARCHES
\* directives.
C20_PlanHasNumSearches ==
    "Searching" \in Range(entered) => Len(search_plan) = NUM_SEARCHES

\* C21: the success count main shows after perform_searches is the number of
\* directives whose search call succeeded.
C21_CountIsSucceededCalls ==
    successful # <<>> =>
        successful[1] = Cardinality({ i \in 1..Len(SearchCalls) :
                                        SearchCalls[i].outcome = "ok" })
====
